---- MODULE Spec2Model ----
(***************************************************************************)
(* The serial terminal of src/src/index.ts as a state machine.             *)
(*                                                                         *)
(* The page is single threaded.  Every async function runs from one await  *)
(* to the next without interruption, so one action of this module is one   *)
(* such segment of a handler.  A continuation whose promise is already     *)
(* settled runs from the microtask queue before the event loop delivers    *)
(* the next event: while such a continuation is due (Urgent), no click,    *)
(* hot-plug event or host completion is taken.  Continuations that are due *)
(* at the same time run in any order.                                      *)
(*                                                                         *)
(* The DOMContentLoaded listener registers the click listener of the       *)
(* connect button, then awaits serial.getPorts(); it lists the devices and *)
(* registers the hot-plug and command listeners when that has resolved.    *)
(* The behaviours start while it waits.                                    *)
(*                                                                         *)
(* The host (Web Serial and the Streams it hands out) is the environment:  *)
(*  - open() rejects at once unless the handle is closed; otherwise it     *)
(*    completes later, with success or with an Error;                      *)
(*  - close() rejects at once unless the handle is opened and its current  *)
(*    readable stream is unlocked; otherwise it completes later;           *)
(*  - handle.readable is null unless the handle is opened and has had no   *)
(*    fatal read error; a stream that errored or was cancelled is replaced *)
(*    by a fresh, unlocked one on the next access;                         *)
(*  - getReader() throws a TypeError on a locked stream;                   *)
(*  - reader.cancel() resolves the pending reads with done at once; its    *)
(*    own promise settles when the host has finished the cancellation, in  *)
(*    a later task or already in the microtask queue, before or after the  *)
(*    continuations of those reads: the code awaits nothing that orders    *)
(*    them;                                                                *)
(*  - releaseLock() rejects the reads still pending on the reader with a   *)
(*    TypeError;                                                           *)
(*  - a stream that fails rejects its reads with an Error under the native *)
(*    implementation and with a string under the polyfill, which errors    *)
(*    its streams with error.toString(); open() and close() reject with    *)
(*    Errors only;                                                         *)
(*  - getPorts() resolves in a later task with the attached devices the    *)
(*    page has permission for;                                             *)
(*  - requestPort() shows the chooser when called from a click and rejects *)
(*    at once when called from a hot-plug event (no user gesture); while   *)
(*    the chooser is shown the user cannot operate the page.               *)
(***************************************************************************)
EXTENDS Integers, Sequences, FiniteSets, TLC

\* ------------------------------------------------------------------ bounds
NumPorts == 2
MaxTasks == 3
MaxCounter == 3

Ports == 1..NumPorts
Tasks == 1..MaxTasks

\* ------------------------------------------------------- program constants
PortCounterInit == 1

\* export const rig = $state({...})
rigInit == [returnMsg |-> "no Message", frequency |-> 1500000,
            frequencyConfirmed |-> FALSE]

\* The texts dumpSerialOut is called with.  A received chunk is "data", the
\* empty chunk of a read on a closed stream is "".
MsgConnected == "<CONNECTED>\n"
MsgDisconnected == "<DISCONNECTED>\n"
MsgError == "<ERROR: e>\n"
MsgCloseError == "<ERROR: e>"
MsgData == "data"
MsgEmpty == ""

VARIABLES
  usePolyfill, \* const usePolyfill: the page was loaded with ?polyfill
  port,        \* let port: 0 is undefined
  reader,      \* let reader: NoReader is undefined
  portCounter, \* let portCounter
  options,     \* portSelector's PortOptions, after the 'prompt' option
  sel,         \* index of the selected option, 0 is the 'prompt' option
  selDisabled, \* portSelector.disabled
  btnText,     \* connectButton.textContent
  btnDisabled, \* connectButton.disabled
  hstate,      \* host: state of each handle
  locked,      \* host: the handle's current readable stream is locked
  closedStrm,  \* host: the handle's current readable stream is cancelled
  readFatal,   \* host: the handle had a fatal read error
  plugged,     \* host: the devices that are attached
  granted,     \* host: the devices the page has permission for
  tasks,       \* the invocations of connectToPort and disconnectFromPort
  last,        \* what the latest step did, the messages it dumped included
  rig,         \* the rig status slice of the store (src/unnamed/part_000)
  loaded       \* the DOMContentLoaded listener has run to its end

vars == <<usePolyfill, port, reader, portCounter, options, sel, selDisabled, btnText,
          btnDisabled, hstate, locked, closedStrm, readFatal,
          plugged, granted, tasks, last, rig, loaded>>

uiVars == <<selDisabled, btnText, btnDisabled>>
listVars == <<portCounter, options, sel>>
hostVars == <<hstate, locked, closedStrm, readFatal>>
envVars == <<plugged, granted, usePolyfill>>

\* A reader is named by the handle whose stream it locks; st tells whether that
\* stream is still the handle's current one ("live") or how it ended: closed
\* by a cancellation ("closed") or errored ("error", "nonError").
NoReader == [h |-> 0, st |-> "none"]
LiveReader(h) == [h |-> h, st |-> "live"]

Idle == [kind |-> "none", pc |-> "idle", h |-> 0, lp |-> 0, res |-> "none",
         failed |-> FALSE, disc |-> FALSE]

\* What a step did: the invocation that ran (by), the function it belongs to
\* (op), the messages it appended to #serialOut with dumpSerialOut (out) and
\* whether the function returned or threw in it (end).  The text of #serialOut
\* only grows and the program never reads it: the model keeps what the latest
\* step appended to it, not the whole text.
NoStep == [by |-> 0, op |-> "none", out |-> << >>, end |-> "none"]
Step(t, op, msgs, end) == [by |-> t, op |-> op, out |-> msgs, end |-> end]

\* A continuation of t is due in the microtask queue.
Urgent(t) ==
  \/ tasks[t].pc \in {"dumped", "catch"}
  \/ tasks[t].pc \in {"reqPort", "open", "read", "cancel", "close"} /\ tasks[t].res # "pending"

Quiet == \A t \in Tasks : ~Urgent(t)

\* the device chooser of serial.requestPort() is on screen
ChooserShown == \E t \in Tasks : tasks[t].pc = "reqPort" /\ tasks[t].res = "pending"

HasFree == \E t \in Tasks : tasks[t].kind = "none"
FreeSlot == CHOOSE t \in Tasks : tasks[t].kind = "none" /\ \A u \in Tasks : tasks[u].kind = "none" => t <= u

RECURSIVE findPortOption(_, _, _)
\* index of the first option of opts, from i on, whose port is p; 0 is null
findPortOption(opts, p, i) ==
  IF i > Len(opts) THEN 0
  ELSE IF opts[i].port = p THEN i
  ELSE findPortOption(opts, p, i + 1)

addNewPort(opts, p, counter) == Append(opts, [port |-> p, label |-> counter])

\* A variant of maybeAddNewPortOptions without the lookup: it always adds.
maybeAddNewPortOptions_Always(opts, p, counter) == addNewPort(opts, p, counter)

\* the option list and portCounter after maybeAddNewPort(p)
maybeAddNewPortOptions(opts, p, counter) ==
  IF findPortOption(opts, p, 1) # 0 THEN opts ELSE addNewPort(opts, p, counter)

maybeAddNewPortCounter(opts, p, counter) ==
  IF findPortOption(opts, p, 1) # 0 THEN counter ELSE counter + 1

\* the index of the option maybeAddNewPort(p) returns
maybeAddNewPort(opts, p, counter) ==
  findPortOption(maybeAddNewPortOptions(opts, p, counter), p, 1)

RECURSIVE listing(_, _, _)
\* ports.forEach((port) => addNewPort(port)) over the granted ports from p on
listing(ps, p, counter) ==
  IF p > NumPorts THEN << >>
  ELSE IF p \in ps THEN <<[port |-> p, label |-> counter]>> \o listing(ps, p + 1, counter + 1)
  ELSE listing(ps, p + 1, counter)

\* The state when the DOMContentLoaded listener waits for serial.getPorts():
\* the click listener of connectButton and the change listener of FREQUENCY
\* are registered, the devices are not listed yet.
Init ==
  /\ usePolyfill \in BOOLEAN
  /\ port = 0
  /\ reader = NoReader
  /\ granted \in SUBSET Ports
  /\ plugged \in SUBSET Ports
  /\ Ports \ granted \subseteq plugged
  /\ options = << >>
  /\ portCounter = PortCounterInit
  /\ loaded = FALSE
  /\ sel = 0
  /\ selDisabled = FALSE
  /\ btnText = "Connect"
  /\ btnDisabled = FALSE
  /\ hstate = [p \in Ports |-> "closed"]
  /\ locked = [p \in Ports |-> FALSE]
  /\ closedStrm = [p \in Ports |-> FALSE]
  /\ readFatal = [p \in Ports |-> FALSE]
  /\ tasks = [t \in Tasks |-> Idle]
  /\ last = NoStep
  /\ rig = rigInit

\* markDisconnected(), after the messages pre were dumped by the same step
markDisconnected(t, op, pre, end) ==
  /\ selDisabled' = FALSE
  /\ btnText' = "Connect"
  /\ btnDisabled' = FALSE
  /\ port' = 0
  /\ last' = Step(t, op, pre \o <<MsgDisconnected>>, end)

\* connectToPort from "if (!port)" to the call of port.open(), p being port
connectOpen(t, p) ==
  IF p = 0
  THEN /\ tasks' = [tasks EXCEPT ![t] = Idle]
       /\ last' = Step(t, "connect", << >>, "returned")
       /\ port' = p
       /\ UNCHANGED <<uiVars, hstate>>
  ELSE /\ port' = p
       /\ selDisabled' = TRUE
       /\ btnText' = "Connecting..."
       /\ btnDisabled' = TRUE
       /\ last' = Step(t, "connect", << >>, "none")
       /\ IF hstate[p] = "closed"
          THEN /\ hstate' = [hstate EXCEPT ![p] = "opening"]
               /\ tasks' = [tasks EXCEPT ![t] = [Idle EXCEPT !.kind = "connect",
                               !.pc = "open", !.h = p, !.res = "pending"]]
          ELSE /\ hstate' = hstate
               /\ tasks' = [tasks EXCEPT ![t] = [Idle EXCEPT !.kind = "connect",
                               !.pc = "open", !.h = p, !.res = "rejected"]]

\* connectToPort() up to its first await; gesture: it is called from a click
connectToPort(t, gesture) ==
  /\ UNCHANGED <<reader, locked, closedStrm, readFatal>>
  /\ IF sel = 0
     THEN /\ tasks' = [tasks EXCEPT ![t] = [Idle EXCEPT !.kind = "connect",
                          !.pc = "reqPort",
                          !.res = IF gesture THEN "pending" ELSE "rejected"]]
          /\ last' = Step(t, "connect", << >>, "none")
          /\ UNCHANGED <<port, uiVars, hstate>>
     ELSE connectOpen(t, options[sel].port)

\* getSelectedPort after serial.requestPort() resolved with handle p
RequestPortResolve(t, p) ==
  /\ UNCHANGED <<rig, loaded>>
  /\ Quiet
  /\ tasks[t].pc = "reqPort" /\ tasks[t].res = "pending"
  /\ p \in plugged
  /\ portCounter < MaxCounter \/ findPortOption(options, p, 1) # 0
  /\ granted' = granted \cup {p}
  /\ UNCHANGED <<plugged, usePolyfill>>
  /\ options' = maybeAddNewPortOptions(options, p, portCounter)
  /\ portCounter' = maybeAddNewPortCounter(options, p, portCounter)
  /\ sel' = maybeAddNewPort(options, p, portCounter)
  /\ connectOpen(t, p)
  /\ UNCHANGED <<reader, locked, closedStrm, readFatal>>

\* the user dismisses the chooser: serial.requestPort() rejects
RequestPortCancel(t) ==
  /\ UNCHANGED <<rig, loaded>>
  /\ Quiet
  /\ tasks[t].pc = "reqPort" /\ tasks[t].res = "pending"
  /\ tasks' = [tasks EXCEPT ![t].res = "cancelled"]
  /\ last' = NoStep
  /\ UNCHANGED <<port, reader, uiVars, listVars, envVars, hostVars>>

\* A variant of requestPortCatch that treats the rejection as a failure of
\* the connection: it reports an error and resets the UI.
requestPortCatch_Reports(t) ==
  /\ markDisconnected(t, "connect", <<MsgError>>, "returned")
  /\ tasks' = [tasks EXCEPT ![t] = Idle]
  /\ UNCHANGED <<hstate, reader, locked, closedStrm, readFatal, envVars, listVars>>

\* getSelectedPort's catch block and connectToPort after it
requestPortCatch(t) ==
  /\ connectOpen(t, port)
  /\ UNCHANGED <<reader, locked, closedStrm, readFatal, envVars, listVars>>

\* the continuation of a rejected serial.requestPort(): the user dismissed
\* the chooser ("cancelled") or the host refused to show it ("rejected")
RequestPortRejected(t) ==
  /\ UNCHANGED <<rig, loaded>>
  /\ tasks[t].pc = "reqPort" /\ tasks[t].res \in {"rejected", "cancelled"}
  /\ requestPortCatch(t)

\* A variant of openCatch that resets the UI without dumping the error.
openCatch_Silent(t) ==
  /\ markDisconnected(t, "connect", << >>, "returned")
  /\ tasks' = [tasks EXCEPT ![t] = Idle]
  /\ UNCHANGED <<reader, locked, closedStrm, readFatal, listVars, envVars>>

\* the catch block of port.open()
openCatch(t) ==
  /\ markDisconnected(t, "connect", <<MsgError>>, "returned")
  /\ tasks' = [tasks EXCEPT ![t] = Idle]
  /\ UNCHANGED <<reader, locked, closedStrm, readFatal, listVars, envVars>>

\* the host fails to open the device: port.open() rejects
OpenFail(t) ==
  /\ UNCHANGED <<rig, loaded>>
  /\ Quiet
  /\ tasks[t].pc = "open" /\ tasks[t].res = "pending"
  /\ hstate' = [hstate EXCEPT ![tasks[t].h] = "closed"]
  /\ tasks' = [tasks EXCEPT ![t].res = "rejected"]
  /\ last' = NoStep
  /\ UNCHANGED <<port, reader, uiVars, listVars, envVars, locked,
                 closedStrm, readFatal>>

\* the continuation of a rejected port.open()
OpenRejected(t) ==
  /\ UNCHANGED <<rig, loaded>>
  /\ tasks[t].pc = "open" /\ tasks[t].res = "rejected"
  /\ hstate' = hstate
  /\ openCatch(t)

\* reader.releaseLock() on the module's reader: the lock table after it
releaseLock(lk) ==
  IF reader.st = "live" THEN [lk EXCEPT ![reader.h] = FALSE] ELSE lk

\* reader.releaseLock() on the module's reader: the reads of the other
\* invocations still pending on it reject with a TypeError
releaseReads(ts, t) ==
  [u \in Tasks |->
     IF u # t /\ reader.st = "live" /\ ts[u].pc = "read" /\ ts[u].res = "pending"
        /\ ts[u].h = reader.h
     THEN [ts[u] EXCEPT !.res = "error"]
     ELSE ts[u]]

\* port.close() called on p by t, hs and lk being the states and the locks of
\* the handles: it rejects at once unless p is opened and its stream unlocked
closeCall(t, ts, p, hs, lk) ==
  IF hs[p] = "opened" /\ ~lk[p]
  THEN /\ hstate' = [hs EXCEPT ![p] = "closing"]
       /\ tasks' = [ts EXCEPT ![t].pc = "close", ![t].h = p, ![t].res = "pending"]
  ELSE /\ hstate' = hs
       /\ tasks' = [ts EXCEPT ![t].pc = "close", ![t].h = p, ![t].res = "rejected"]

\* reader.read(view) called on the reader rd by t.  On a stream that is
\* already cancelled the read resolves at once with an empty view and done
\* ("closed"); a read that is pending when the reader is cancelled resolves
\* with no value and done ("done", see cancelReads).
readCall(ts, t, rd) ==
  [ts EXCEPT ![t].pc = "read",
             ![t].h = rd.h,
             ![t].res = CASE rd.st = "none" -> "error"
                          [] rd.st = "live" -> IF closedStrm[rd.h] THEN "closed" ELSE "pending"
                          [] OTHER -> rd.st]

\* the loop test port && port.readable, hs and rf being the states and the
\* fatal-error flags of the handles
loopCondition(hs, rf) == port # 0 /\ hs[port] = "opened" /\ ~rf[port]

\* connectToPort from the test of its while loop to its next await, in a step
\* that has dumped the messages pre and has left the invocations ts, the
\* handles hs and rf, the locks lk and the module's reader rd: it acquires a
\* reader and reads, or leaves the loop and closes the current port, or
\* returns when there is none.  getReader() throws on a locked stream: the
\* catch block dumps the error and awaits.
loopHead(t, ts, hs, rf, lk, rd, pre) ==
  IF loopCondition(hs, rf)
  THEN IF lk[port]
       THEN /\ tasks' = [ts EXCEPT ![t].pc = "catch", ![t].res = "none"]
            /\ last' = Step(t, "connect", pre \o <<MsgError>>, "none")
            /\ reader' = rd
            /\ locked' = lk
            /\ hstate' = hs
       ELSE /\ tasks' = readCall(ts, t, LiveReader(port))
            /\ last' = Step(t, "connect", pre, "none")
            /\ reader' = LiveReader(port)
            /\ locked' = [lk EXCEPT ![port] = TRUE]
            /\ hstate' = hs
  ELSE IF port # 0
       THEN /\ closeCall(t, ts, port, hs, lk)
            /\ last' = Step(t, "connect", pre, "none")
            /\ reader' = rd
            /\ locked' = lk
       ELSE /\ tasks' = [ts EXCEPT ![t] = Idle]
            /\ last' = Step(t, "connect", pre, "returned")
            /\ reader' = rd
            /\ locked' = lk
            /\ hstate' = hs

\* port.open() resolved: connectToPort runs on to the first await of its loop
OpenDone(t) ==
  /\ UNCHANGED <<rig, loaded>>
  /\ Quiet
  /\ tasks[t].pc = "open" /\ tasks[t].res = "pending"
  /\ tasks[t].h \in plugged
  /\ readFatal' = [readFatal EXCEPT ![tasks[t].h] = FALSE]
  /\ btnText' = "Disconnect"
  /\ btnDisabled' = FALSE
  /\ loopHead(t, tasks, [hstate EXCEPT ![tasks[t].h] = "opened"],
              [readFatal EXCEPT ![tasks[t].h] = FALSE], locked, reader,
              <<MsgConnected>>)
  /\ UNCHANGED <<port, selDisabled, closedStrm, listVars, envVars>>

\* finally { if (reader) { reader.releaseLock(); reader = undefined; } } and
\* the next test of the while loop, which run in one piece
finallyBlock(t) ==
  loopHead(t, releaseReads(tasks, t), hstate, readFatal, releaseLock(locked),
           NoReader, << >>)

\* the host delivers received bytes: the read of t resolves with a chunk, and
\* so do, if all, the reads the other invocations have pending on the reader
ReadValue(t, all) ==
  /\ UNCHANGED <<rig, loaded>>
  /\ Quiet
  /\ tasks[t].pc = "read" /\ tasks[t].res = "pending"
  /\ tasks[t].h \in plugged
  /\ tasks' = [u \in Tasks |->
                 IF \/ u = t
                    \/ /\ all
                       /\ tasks[u].pc = "read" /\ tasks[u].res = "pending"
                       /\ tasks[u].h = tasks[t].h
                 THEN [tasks[u] EXCEPT !.res = "value"]
                 ELSE tasks[u]]
  /\ last' = NoStep
  /\ UNCHANGED <<port, reader, uiVars, listVars, envVars, hostVars>>

\* what a failed stream rejects its reads with: an Error ("error") or a string
streamError == IF usePolyfill THEN "nonError" ELSE "error"

\* the stream of p fails; a fatal failure leaves the handle without a readable
ReadError(p, fatal) ==
  /\ UNCHANGED <<rig, loaded>>
  /\ Quiet
  /\ hstate[p] = "opened" /\ ~readFatal[p] /\ ~closedStrm[p]
  /\ locked[p] \/ fatal
  /\ tasks' = [u \in Tasks |->
                 IF tasks[u].pc = "read" /\ tasks[u].res = "pending" /\ tasks[u].h = p
                 THEN [tasks[u] EXCEPT !.res = streamError]
                 ELSE tasks[u]]
  /\ locked' = [locked EXCEPT ![p] = FALSE]
  /\ readFatal' = [readFatal EXCEPT ![p] = fatal]
  /\ reader' = IF reader = LiveReader(p) THEN [h |-> p, st |-> streamError] ELSE reader
  /\ last' = NoStep
  /\ UNCHANGED <<port, uiVars, listVars, envVars, hstate, closedStrm>>

\* the continuation of a read that settled, up to the next await
HandleRead(t) ==
  /\ UNCHANGED <<rig, loaded>>
  /\ tasks[t].pc = "read"
  /\ tasks[t].res \in {"value", "closed", "done", "error", "nonError"}
  /\ UNCHANGED <<port, uiVars, listVars, envVars, closedStrm, readFatal>>
  /\ CASE tasks[t].res = "value" ->
            \* the chunk is dumped; await new Promise(...)
            /\ tasks' = [tasks EXCEPT ![t].pc = "dumped", ![t].res = "none"]
            /\ last' = Step(t, "connect", <<MsgData>>, "none")
            /\ UNCHANGED <<reader, locked, hstate>>
       [] tasks[t].res = "closed" ->
            \* value is an empty view: '' is dumped; await new Promise(...);
            \* done is kept for the test after the await
            /\ tasks' = [tasks EXCEPT ![t].pc = "dumped", ![t].res = "done"]
            /\ last' = Step(t, "connect", <<MsgEmpty>>, "none")
            /\ UNCHANGED <<reader, locked, hstate>>
       [] tasks[t].res = "done" ->
            \* no value; break, the finally block, the loop test
            finallyBlock(t)
       [] tasks[t].res = "error" ->
            \* the catch block dumps the error; await new Promise(...)
            /\ tasks' = [tasks EXCEPT ![t].pc = "catch", ![t].res = "none",
                                      ![t].failed = TRUE]
            /\ last' = Step(t, "connect", <<MsgError>>, "none")
            /\ UNCHANGED <<reader, locked, hstate>>
       [] tasks[t].res = "nonError" ->
            \* e is no Error: resolve is never called, the await never returns
            /\ tasks' = [tasks EXCEPT ![t].pc = "hang", ![t].res = "none",
                                      ![t].failed = TRUE]
            /\ last' = Step(t, "connect", << >>, "none")
            /\ UNCHANGED <<reader, locked, hstate>>

\* the continuation of the await after a chunk was dumped: if (done) break,
\* with the finally block and the loop test, or else the next reader.read(),
\* on what the module's reader is by then
ReadNext(t) ==
  /\ UNCHANGED <<rig, loaded>>
  /\ tasks[t].pc = "dumped"
  /\ IF tasks[t].res = "done"
     THEN finallyBlock(t)
     ELSE /\ tasks' = readCall(tasks, t, reader)
          /\ last' = Step(t, "connect", << >>, "none")
          /\ UNCHANGED <<reader, locked, hstate>>
  /\ UNCHANGED <<port, uiVars, listVars, envVars, closedStrm, readFatal>>

\* the continuation of the await of the catch block: the finally block and
\* the next test of the while loop
AfterCatch(t) ==
  /\ UNCHANGED <<rig, loaded>>
  /\ tasks[t].pc = "catch"
  /\ finallyBlock(t)
  /\ UNCHANGED <<port, uiVars, listVars, envVars, closedStrm, readFatal>>

\* A variant of closeSettled in which a close error ends the function: it
\* is dumped, and markDisconnected() is not reached.
closeSettled_Throws(t, pre) ==
  /\ IF pre = << >>
     THEN markDisconnected(t, tasks[t].kind, pre, "returned")
     ELSE /\ last' = Step(t, tasks[t].kind, pre, "threw")
          /\ UNCHANGED <<port, uiVars>>
  /\ tasks' = [tasks EXCEPT ![t] = Idle]
  /\ UNCHANGED <<reader, listVars, envVars>>

\* the end of connectToPort and of disconnectFromPort after port.close()
\* settled; pre is what the catch block dumped
closeSettled(t, pre) ==
  /\ markDisconnected(t, tasks[t].kind, pre, "returned")
  /\ tasks' = [tasks EXCEPT ![t] = Idle]
  /\ UNCHANGED <<reader, listVars, envVars>>

\* port.close() resolved
CloseDone(t) ==
  /\ UNCHANGED <<rig, loaded>>
  /\ Quiet
  /\ tasks[t].pc = "close" /\ tasks[t].res = "pending"
  /\ hstate' = [hstate EXCEPT ![tasks[t].h] = "closed"]
  /\ locked' = [locked EXCEPT ![tasks[t].h] = FALSE]
  /\ closedStrm' = [closedStrm EXCEPT ![tasks[t].h] = FALSE]
  /\ readFatal' = [readFatal EXCEPT ![tasks[t].h] = FALSE]
  /\ closeSettled(t, << >>)

\* the host fails to close the device, which is then still open (keep) or
\* closed: port.close() rejects
CloseFail(t, keep) ==
  /\ UNCHANGED <<rig, loaded>>
  /\ Quiet
  /\ tasks[t].pc = "close" /\ tasks[t].res = "pending"
  /\ hstate' = [hstate EXCEPT ![tasks[t].h] = IF keep THEN "opened" ELSE "closed"]
  /\ locked' = IF keep THEN locked ELSE [locked EXCEPT ![tasks[t].h] = FALSE]
  /\ closedStrm' = IF keep THEN closedStrm ELSE [closedStrm EXCEPT ![tasks[t].h] = FALSE]
  /\ readFatal' = IF keep THEN readFatal ELSE [readFatal EXCEPT ![tasks[t].h] = FALSE]
  /\ tasks' = [tasks EXCEPT ![t].res = "rejected"]
  /\ last' = NoStep
  /\ UNCHANGED <<port, reader, uiVars, listVars, envVars>>

\* the continuation of a rejected port.close(): the catch block
CloseRejected(t) ==
  /\ UNCHANGED <<rig, loaded>>
  /\ tasks[t].pc = "close" /\ tasks[t].res = "rejected"
  /\ UNCHANGED hostVars
  /\ closeSettled(t, <<MsgCloseError>>)

\* the invocations that are suspended in reader.read() are marked: a
\* disconnect was called while they waited
markSuspended(ts) ==
  [u \in Tasks |->
     IF ts[u].pc = "read" /\ ts[u].res = "pending"
     THEN [ts[u] EXCEPT !.disc = TRUE]
     ELSE ts[u]]

\* reader.cancel() on the module's reader: the reads pending on it resolve
\* with done
cancelReads(ts) ==
  [u \in Tasks |->
     IF reader.st = "live" /\ ts[u].pc = "read" /\ ts[u].res = "pending"
        /\ ts[u].h = reader.h
     THEN [ts[u] EXCEPT !.res = "done"]
     ELSE ts[u]]

\* A variant of disconnectClose that returns without markDisconnected() when
\* there is no handle to close.
disconnectClose_Skips(t, ts, lp) ==
  IF lp # 0
  THEN /\ closeCall(t, ts, lp, hstate, locked)
       /\ port' = 0
       /\ last' = Step(t, "disconnect", << >>, "none")
       /\ UNCHANGED <<uiVars>>
  ELSE /\ last' = Step(t, "disconnect", << >>, "returned")
       /\ tasks' = [ts EXCEPT ![t] = Idle]
       /\ port' = 0
       /\ UNCHANGED <<uiVars, hstate>>

\* disconnectFromPort from "if (localPort)" on: close the handle lp, or go
\* straight to markDisconnected()
disconnectClose(t, ts, lp) ==
  IF lp # 0
  THEN /\ closeCall(t, ts, lp, hstate, locked)
       /\ port' = 0
       /\ last' = Step(t, "disconnect", << >>, "none")
       /\ UNCHANGED <<uiVars>>
  ELSE /\ markDisconnected(t, "disconnect", << >>, "returned")
       /\ tasks' = [ts EXCEPT ![t] = Idle]
       /\ hstate' = hstate

\* the test if (reader) before reader.cancel()
hasReader == reader # NoReader

\* disconnectFromPort() up to its first await that does not settle at once
disconnectFromPort(t) ==
  LET ts == [markSuspended(tasks) EXCEPT ![t] = [Idle EXCEPT !.kind = "disconnect",
                                                          !.lp = port]]
  IN IF hasReader
     THEN \* await reader.cancel()
          /\ port' = 0
          /\ tasks' = [cancelReads(ts) EXCEPT
                         ![t].pc = "cancel",
                         ![t].h = reader.h,
                         ![t].res = CASE reader.st = "live" ->
                                           IF closedStrm[reader.h] THEN "resolved" ELSE "pending"
                                      [] reader.st = "closed" -> "resolved"
                                      [] OTHER -> "rejected"]
          /\ closedStrm' = IF reader.st = "live"
                           THEN [closedStrm EXCEPT ![reader.h] = TRUE]
                           ELSE closedStrm
          /\ last' = Step(t, "disconnect", << >>, "none")
          /\ UNCHANGED <<uiVars, hstate, reader, locked, readFatal>>
     ELSE /\ disconnectClose(t, ts, port)
          /\ UNCHANGED <<reader, locked, closedStrm, readFatal>>

\* reader.cancel() resolved, at once ("resolved": the stream was cancelled
\* before) or when the host has finished the cancellation ("pending"), which
\* may be before the loops that read from the reader have run their finally
\* block.  The cancelled stream is then no longer the handle's: a reader
\* that was not released stays behind as the reader of a closed stream.
\* disconnectFromPort goes on to localPort.close() or to markDisconnected().
CancelDone(t) ==
  /\ UNCHANGED <<rig, loaded>>
  /\ tasks[t].pc = "cancel" /\ tasks[t].res \in {"pending", "resolved"}
  /\ LET h == tasks[t].h
         finished == tasks[t].res = "pending"
         lk == IF finished THEN [locked EXCEPT ![h] = FALSE] ELSE locked
     IN /\ closedStrm' = IF finished THEN [closedStrm EXCEPT ![h] = FALSE]
                         ELSE closedStrm
        /\ locked' = lk
        /\ reader' = IF finished /\ reader = LiveReader(h)
                     THEN [h |-> h, st |-> "closed"]
                     ELSE reader
        /\ IF tasks[t].lp # 0
           THEN /\ closeCall(t, tasks, tasks[t].lp, hstate, lk)
                /\ last' = Step(t, "disconnect", << >>, "none")
                /\ UNCHANGED <<port, uiVars>>
           ELSE /\ markDisconnected(t, "disconnect", << >>, "returned")
                /\ tasks' = [tasks EXCEPT ![t] = Idle]
                /\ hstate' = hstate
  /\ UNCHANGED <<readFatal, listVars, envVars>>

\* reader.cancel() rejected (the reader's stream had errored): the await
\* throws and disconnectFromPort ends there
CancelRejected(t) ==
  /\ UNCHANGED <<rig, loaded>>
  /\ tasks[t].pc = "cancel" /\ tasks[t].res = "rejected"
  /\ tasks' = [tasks EXCEPT ![t] = Idle]
  /\ last' = Step(t, "disconnect", << >>, "threw")
  /\ UNCHANGED <<port, reader, uiVars, listVars, envVars, hostVars>>

\* serial.getPorts() resolved: the DOMContentLoaded listener lists the attached
\* devices the page has permission for, then registers the hot-plug listeners
\* (unless the polyfill is used) and the listeners of the command buttons
GetPortsResolve ==
  /\ Quiet
  /\ ~loaded
  /\ portCounter + Cardinality(granted \cap plugged) <= MaxCounter
  /\ loaded' = TRUE
  /\ options' = options \o listing(granted \cap plugged, 1, portCounter)
  /\ portCounter' = portCounter + Cardinality(granted \cap plugged)
  /\ last' = NoStep
  /\ UNCHANGED <<port, reader, sel, uiVars, hostVars, envVars, tasks, rig>>

\* the click listener of connectButton; a disabled button gets no click
ClickConnect ==
  /\ UNCHANGED <<rig, loaded>>
  /\ Quiet
  /\ ~ChooserShown
  /\ ~btnDisabled
  /\ HasFree
  /\ IF port # 0
     THEN disconnectFromPort(FreeSlot)
     ELSE connectToPort(FreeSlot, TRUE)
  /\ UNCHANGED <<listVars, envVars>>

\* the user picks another option of the port selector
SelectOption(i) ==
  /\ UNCHANGED <<rig, loaded>>
  /\ Quiet
  /\ ~ChooserShown
  /\ ~selDisabled
  /\ i # sel
  /\ sel' = i
  /\ last' = NoStep
  /\ UNCHANGED <<port, reader, portCounter, options, uiVars, hostVars,
                 envVars, tasks>>

\* a device the page has permission for is attached: the 'connect' listener,
\* which is registered at the end of the page load unless the polyfill is used
HotplugConnect(p) ==
  /\ UNCHANGED <<rig, loaded>>
  /\ Quiet
  /\ loaded /\ ~usePolyfill
  /\ p \notin plugged /\ p \in granted
  /\ HasFree
  /\ portCounter < MaxCounter
  /\ plugged' = plugged \cup {p}
  /\ UNCHANGED <<granted, usePolyfill>>
  /\ options' = addNewPort(options, p, portCounter)
  /\ portCounter' = portCounter + 1
  /\ sel' = sel
  /\ connectToPort(FreeSlot, FALSE)

\* A variant of removeOption that empties the list.
removeOption_All(opts, i) == << >>

\* the option list without its i-th option
removeOption(opts, i) ==
  [j \in 1..(Len(opts) - 1) |-> IF j < i THEN opts[j] ELSE opts[j + 1]]

\* the selected index after the i-th option was removed: the selection falls
\* back to the first option (the prompt) when the selected one goes
selAfterRemove(s, i) ==
  IF s = i THEN 0 ELSE IF s > i THEN s - 1 ELSE s

\* a device the page has permission for is detached: the 'disconnect'
\* listener, which is registered at the end of the page load unless the
\* polyfill is used
HotplugDisconnect(p) ==
  /\ UNCHANGED <<rig, loaded>>
  /\ Quiet
  /\ loaded /\ ~usePolyfill
  /\ p \in plugged /\ p \in granted
  /\ plugged' = plugged \ {p}
  /\ UNCHANGED <<granted, usePolyfill>>
  /\ LET i == findPortOption(options, p, 1)
     IN IF i # 0
        THEN /\ options' = removeOption(options, i)
             /\ sel' = selAfterRemove(sel, i)
        ELSE UNCHANGED <<options, sel>>
  /\ last' = NoStep
  /\ UNCHANGED <<port, reader, portCounter, uiVars, hostVars, tasks>>

Next ==
  \/ GetPortsResolve
  \/ ClickConnect
  \/ \E i \in 0..Len(options) : SelectOption(i)
  \/ \E p \in Ports : HotplugConnect(p)
  \/ \E p \in Ports : HotplugDisconnect(p)
  \/ \E t \in Tasks, p \in Ports : RequestPortResolve(t, p)
  \/ \E t \in Tasks : RequestPortCancel(t)
  \/ \E t \in Tasks : RequestPortRejected(t)
  \/ \E t \in Tasks : OpenDone(t)
  \/ \E t \in Tasks : OpenFail(t)
  \/ \E t \in Tasks : OpenRejected(t)
  \/ \E t \in Tasks, all \in BOOLEAN : ReadValue(t, all)
  \/ \E p \in Ports, fatal \in BOOLEAN : ReadError(p, fatal)
  \/ \E t \in Tasks : HandleRead(t)
  \/ \E t \in Tasks : ReadNext(t)
  \/ \E t \in Tasks : AfterCatch(t)
  \/ \E t \in Tasks : CloseDone(t)
  \/ \E t \in Tasks, keep \in BOOLEAN : CloseFail(t, keep)
  \/ \E t \in Tasks : CloseRejected(t)
  \/ \E t \in Tasks : CancelDone(t)
  \/ \E t \in Tasks : CancelRejected(t)

Spec == Init /\ [][Next]_vars

\* disconnectFromPort() called by other code of the page than the click
\* listener, while there is neither a current port nor a reader
CallDisconnect ==
  /\ UNCHANGED <<rig, loaded>>
  /\ Quiet
  /\ HasFree
  /\ port = 0 /\ reader = NoReader
  /\ disconnectFromPort(FreeSlot)
  /\ UNCHANGED <<listVars, envVars>>

NextApi == Next \/ CallDisconnect

\* the page with disconnectFromPort() also called directly
SpecApi == Init /\ [][NextApi]_vars

\* ---------------------------------------------------------------- commands
\* A text is the sequence of its code points, a byte array the sequence of
\* its bytes.

\* the longest text the command buttons are given here
MaxTextLen == 2

\* the characters of those texts: '*', '0', U+00E9, U+20AC, U+1F600
Alphabet == {42, 48, 233, 8364, 128512}

\* "*F0000150"
ExampleCmd == <<42, 70, 48, 48, 48, 48, 49, 53, 48>>

\* the values of the command buttons (elem.value)
CmdTexts ==
  UNION {[1..n -> Alphabet] : n \in 0..MaxTextLen} \cup {ExampleCmd}

\* the values typed into the frequency field (e.value), as integers
Frequencies ==
  {0, 4, 5, 14, 15, 1500, 15000, 15004, 15005, 1500000, 99999994, 99999995,
   100000000, -4, -5, -6, -150}

\* TextEncoder: the UTF-8 bytes of one code point; a lone surrogate is
\* encoded as U+FFFD
utf8(c) ==
  IF c < 128 THEN <<c>>
  ELSE IF c < 2048 THEN <<192 + (c \div 64), 128 + (c % 64)>>
  ELSE IF c >= 55296 /\ c <= 57343 THEN <<239, 191, 189>>
  ELSE IF c < 65536
       THEN <<224 + (c \div 4096), 128 + ((c \div 64) % 64), 128 + (c % 64)>>
       ELSE <<240 + (c \div 262144), 128 + ((c \div 4096) % 64),
              128 + ((c \div 64) % 64), 128 + (c % 64)>>

RECURSIVE encode(_)
\* encoder.encode(text)
encode(text) ==
  IF text = << >> THEN << >> ELSE utf8(Head(text)) \o encode(Tail(text))

\* A variant of toXK852Cmd that frames the command with CR first and LF last.
toXK852Cmd_Swapped(cmd) == <<13>> \o encode(cmd) \o <<10>>

\* toXK852Cmd(cmd): an array of m.length + 2 bytes, LF at index 0, m from
\* index 1 on, CR at index m.length + 1
toXK852Cmd(cmd) ==
  LET m == encode(cmd)
  IN [i \in 1..(Len(m) + 2) |->
        IF i = 1 THEN 10
        ELSE IF i = Len(m) + 2 THEN 13
        ELSE m[i - 1]]

\* Math.round(value / 10): the nearest integer, a tie going up
round(value) == (value + 5) \div 10

RECURSIVE digits(_)
\* the decimal digits of n >= 0
digits(n) ==
  IF n < 10 THEN <<48 + n>> ELSE digits(n \div 10) \o <<48 + (n % 10)>>

\* String(n) of an integer n
String(n) == IF n < 0 THEN <<45>> \o digits(-n) ELSE digits(n)

\* A variant of padStart that does not pad.
padStart_None(str, n) == str

\* str.padStart(n, '0000000') for n <= 7
padStart(str, n) ==
  IF Len(str) >= n THEN str ELSE [i \in 1..(n - Len(str)) |-> 48] \o str

\* const fstring = String(f).padStart(7, '0000000')
fstring(value) == padStart(String(round(value)), 7)

\* the command string of setFrequency: `*F${fstring}`
frequencyCmd(value) == <<42, 70>> \o fstring(value)

\* A variant of Writable that takes every handle for writable.
Writable_Always(p) == TRUE

\* handle.writable is not null
Writable(p) == hstate[p] = "opened"

\* sendSerial(data): the writes it issues.  The writer it acquires is
\* released in the same step.
sendSerial(data) ==
  IF port = 0 \/ ~Writable(port) THEN << >> ELSE <<data>>

\* What a step of sendCmd or setFrequency did: the value of the element
\* (arg), the command string (cmd), its bytes (data) and the writes issued
\* (wr); it dumps nothing to #serialOut.
SendStep(op, arg, text) ==
  [by |-> 0, op |-> op, out |-> << >>, end |-> "returned", arg |-> arg,
   cmd |-> text, data |-> toXK852Cmd(text), wr |-> sendSerial(toXK852Cmd(text))]

\* the 'click' listener of a command button whose value is text; it is
\* registered at the end of the page load
SendCmd(text) ==
  /\ Quiet
  /\ loaded
  /\ ~ChooserShown
  /\ last' = SendStep("sendCmd", text, text)
  /\ UNCHANGED <<port, reader, uiVars, listVars, hostVars, envVars, tasks, rig, loaded>>

\* the 'change' listener of the frequency field whose value is value
SetFrequency(value) ==
  /\ Quiet
  /\ ~ChooserShown
  /\ last' = SendStep("setFrequency", value, frequencyCmd(value))
  /\ UNCHANGED <<port, reader, uiVars, listVars, hostVars, envVars, tasks, rig, loaded>>

NextCmd ==
  \/ GetPortsResolve
  \/ \E text \in CmdTexts : SendCmd(text)
  \/ \E value \in Frequencies : SetFrequency(value)

\* the command buttons and the frequency field of a page that is not
\* connected
SpecCmd == Init /\ [][NextCmd]_vars

NextSend ==
  \/ Next
  \/ SendCmd(ExampleCmd)
  \/ SetFrequency(15000)

\* the page with a command button and the frequency field in use
SpecSend == Init /\ [][NextSend]_vars

\* ------------------------------------------------------------ option list

\* What a step that called maybeAddNewPort(p) directly did: the handle (arg),
\* the option returned (ret), and whether the step before was the same call
\* (again).
AddStep(p) ==
  [by |-> 0, op |-> "maybeAddNewPort", out |-> << >>, end |-> "returned",
   arg |-> p,
   ret |-> maybeAddNewPortOptions(options, p, portCounter)[
             maybeAddNewPort(options, p, portCounter)],
   again |-> (last.op = "maybeAddNewPort" /\ last.arg = p)]

\* maybeAddNewPort(p) called for any handle p
MaybeAddNewPort(p) ==
  /\ portCounter < MaxCounter \/ findPortOption(options, p, 1) # 0
  /\ options' = maybeAddNewPortOptions(options, p, portCounter)
  /\ portCounter' = maybeAddNewPortCounter(options, p, portCounter)
  /\ last' = AddStep(p)
  /\ UNCHANGED <<port, reader, sel, uiVars, hostVars, envVars, tasks, rig, loaded>>

NextOptions ==
  \/ GetPortsResolve
  \/ \E p \in Ports : MaybeAddNewPort(p)
  \/ \E p \in Ports : HotplugDisconnect(p)

\* the option list under calls of maybeAddNewPort and 'disconnect' events
SpecOptions == Init /\ [][NextOptions]_vars

\* ------------------------------------------------------------------- store

\* the message setReturnMsg ignores
IgnoredMsg == "\n T  "

\* the messages setReturnMsg is called with
ReturnMsgs ==
  {IgnoredMsg, "\n T ", " T  ", "\n T  \n", "\n R  ", "T", "ok", ""}

\* A variant of setReturnMsg that stores every message.
setReturnMsg_Always(r, msg) == [r EXCEPT !.returnMsg = msg]

\* setReturnMsg(msg) on the rig slice r
setReturnMsg(r, msg) ==
  IF msg # IgnoredMsg THEN [r EXCEPT !.returnMsg = msg] ELSE r

\* a call of setReturnMsg(msg)
SetReturnMsg(msg) ==
  /\ rig' = setReturnMsg(rig, msg)
  /\ last' = [by |-> 0, op |-> "setReturnMsg", out |-> << >>,
              end |-> "returned", arg |-> msg]
  /\ UNCHANGED <<port, reader, uiVars, listVars, hostVars, envVars, tasks, loaded>>

NextStore == \E msg \in ReturnMsgs : SetReturnMsg(msg)

\* the store under calls of setReturnMsg
SpecStore == Init /\ [][NextStore]_vars

\* ------------------------------------------------------------------ claims

\* t is an invocation of connectToPort inside the body of its while loop
InLoop(t) ==
  tasks[t].kind = "connect" /\ tasks[t].pc \in {"read", "dumped", "catch", "hang"}

\* the state the connect button shows
ConnState ==
  CASE btnText = "Connect" -> "Disconnected"
    [] btnText = "Connecting..." -> "Connecting"
    [] btnText = "Disconnect" -> "Connected"

\* C1: at most one invocation of connectToPort is inside its read loop and at
\* most one reader lock is held, over all handles.
C1_OneConnection ==
  /\ Cardinality({t \in Tasks : InLoop(t)}) <= 1
  /\ Cardinality({p \in Ports : locked[p]}) <= 1

\* t has just called close() on the handle tasks[t].h
JustCalledClose(t) == tasks[t].pc = "close" /\ last.by = t /\ last.end = "none"

C3_NoWriteAfterDisconnect ==
  \A t \in Tasks :
     tasks[t].disc /\ InLoop(t) => ~(last.by = t /\ last.out # << >>)

\* the transitions of the connection state the specification allows
AllowedTransitions ==
  { <<"Disconnected", "Connecting">>, <<"Connecting", "Connected">>,
    <<"Connected", "Disconnected">>, <<"Connecting", "Disconnected">> }

\* C4: the connection state only moves Disconnected -> Connecting ->
\* Connected -> Disconnected, or Connecting -> Disconnected.
C4_Transitions ==
  [][ConnState' # ConnState => <<ConnState, ConnState'>> \in AllowedTransitions]_vars

\* C5: an invocation whose read threw is never left suspended in its catch
\* block: it goes on to release the reader.
C5_ReadFailureReleases ==
  \A t \in Tasks : tasks[t].failed => tasks[t].pc # "hang"

\* t, whose read failed, resumes after the await of its catch block: it runs
\* the finally block and comes to the loop test
FailedAtLoop(t) ==
  tasks[t].failed /\ tasks[t].pc = "catch" /\ tasks'[t] # tasks[t]

\* C6: an invocation whose read failed acquires no new reader and issues no
\* further read.
C6_NoRetry ==
  [][\A t \in Tasks : FailedAtLoop(t) => tasks'[t].pc # "read"]_vars

\* the continuation of t's rejected port.open() runs
OpenFailed(t) ==
  tasks[t].pc = "open" /\ tasks[t].res = "rejected" /\ tasks'[t] # tasks[t]

\* C7: when port.open() fails, the error line is dumped, the current port is
\* undefined, the selector and the button are enabled, the button reads
\* 'Connect', no reader is acquired and connectToPort returns without
\* throwing.
C7_OpenFailure ==
  [][\A t \in Tasks :
       OpenFailed(t) =>
         /\ last' = Step(t, "connect", <<MsgError, MsgDisconnected>>, "returned")
         /\ port' = 0
         /\ ~selDisabled' /\ ~btnDisabled' /\ btnText' = "Connect"
         /\ tasks'[t] = Idle
         /\ reader' = reader /\ locked' = locked /\ hstate' = hstate]_vars

\* C7 witness: connectToPort has just returned from the catch block of
\* port.open().
C7_Witness ==
  /\ last.op = "connect" /\ last.end = "returned"
  /\ last.out = <<MsgError, MsgDisconnected>>
  /\ port = 0 /\ btnText = "Connect"

\* the continuation of t's serial.requestPort(), which the user cancelled, runs
ChooserCancelled(t) ==
  tasks[t].pc = "reqPort" /\ tasks[t].res = "cancelled" /\ tasks'[t] # tasks[t]

\* C8: while the chooser is shown and when the user has cancelled it, there
\* is no current port; the invocation then returns with nothing dumped, no
\* port.open(), no option added, and the button, the selector and the current
\* port as they were.
C8_CancelSilent ==
  /\ [](\A t \in Tasks :
          tasks[t].pc = "reqPort" /\ tasks[t].res \in {"pending", "cancelled"}
            => port = 0)
  /\ [][\A t \in Tasks :
          ChooserCancelled(t) =>
            /\ last' = Step(t, "connect", << >>, "returned")
            /\ tasks'[t] = Idle
            /\ UNCHANGED <<port, uiVars, listVars, hostVars, reader>>]_vars

\* C8 witness: the user has cancelled the chooser and no port was ever
\* chosen: connectToPort has returned.
C8_Witness ==
  /\ last.op = "connect" /\ last.end = "returned" /\ last.out = << >>
  /\ granted = {}
  /\ \A t \in Tasks : tasks[t] = Idle

\* the continuation of t's rejected port.close() runs
CloseFailed(t) ==
  tasks[t].pc = "close" /\ tasks[t].res = "rejected" /\ tasks'[t] # tasks[t]

\* C9: when port.close() rejects, in disconnectFromPort or at the end of
\* connectToPort, the error is dumped and the function still ends with the
\* current port undefined, the button 'Connect' and enabled, the selector
\* enabled.
C9_CloseFailure ==
  [][\A t \in Tasks :
       CloseFailed(t) =>
         /\ last' = Step(t, tasks[t].kind, <<MsgCloseError, MsgDisconnected>>, "returned")
         /\ port' = 0
         /\ btnText' = "Connect" /\ ~btnDisabled' /\ ~selDisabled'
         /\ tasks'[t] = Idle]_vars

\* C9 witness: connectToPort has left its loop after a read failure and has
\* just returned from a port.close() that rejected.
C9_Witness ==
  /\ last.op = "connect" /\ last.end = "returned"
  /\ last.out = <<MsgCloseError, MsgDisconnected>>
  /\ port = 0 /\ btnText = "Connect"

\* disconnectFromPort() is called while there is neither a current port nor
\* a reader
DisconnectWhenDisconnected ==
  /\ port = 0 /\ reader = NoReader
  /\ last'.by \in Tasks
  /\ last'.op = "disconnect"
  /\ tasks[last'.by].kind = "none"

\* C10 as stated: such a call does not raise and leaves the log, the current
\* port, the reader and the UI as they were.
C10_NoOp ==
  [][DisconnectWhenDisconnected =>
       /\ last'.end = "returned"
       /\ last'.out = << >>
       /\ UNCHANGED <<port, reader, uiVars>>]_vars

\* C10 amended: such a call does not raise, leaves the current port and the
\* reader undefined and the host untouched, leaves the button 'Connect' and
\* enabled and the selector enabled, and appends '<DISCONNECTED>' to the log.
C10_LogsDisconnected ==
  [][DisconnectWhenDisconnected =>
       /\ last' = Step(last'.by, "disconnect", <<MsgDisconnected>>, "returned")
       /\ tasks'[last'.by] = Idle
       /\ port' = 0 /\ reader' = NoReader
       /\ btnText' = "Connect" /\ ~btnDisabled' /\ ~selDisabled'
       /\ UNCHANGED <<hostVars, listVars>>]_vars

\* C10 witness: disconnectFromPort() has returned on a page that never had a
\* port to open.
C10_Witness ==
  /\ last.op = "disconnect" /\ last.end = "returned"
  /\ last.out = <<MsgDisconnected>>
  /\ granted = {}
  /\ port = 0 /\ reader = NoReader

\* C12: no two options of the selection list reference the same handle.
C12_NoDuplicateOptions ==
  \A i, j \in 1..Len(options) : i # j => options[i].port # options[j].port

\* the 'disconnect' event of handle p is delivered
Detached(p) == p \in plugged /\ plugged' = plugged \ {p}

\* the index of the first option of handle p, 0 if there is none
FirstOptionOf(p) ==
  IF \E i \in 1..Len(options) : options[i].port = p
  THEN CHOOSE i \in 1..Len(options) :
         /\ options[i].port = p
         /\ \A j \in 1..(i - 1) : options[j].port # p
  ELSE 0

\* C14: a 'disconnect' event for handle p removes the option of p when there
\* is one and leaves the list as it is otherwise; the other options, the
\* current port, the reader, the button, the running invocations and the
\* handles are unchanged.
C14_DisconnectEventFrame ==
  [][\A p \in Ports :
       Detached(p) =>
         /\ IF FirstOptionOf(p) = 0
            THEN options' = options
            ELSE /\ Len(options') = Len(options) - 1
                 /\ \A j \in 1..Len(options') :
                      options'[j] = IF j < FirstOptionOf(p)
                                    THEN options[j]
                                    ELSE options[j + 1]
         /\ UNCHANGED <<port, reader, portCounter, uiVars, hostVars, tasks>>]_vars

\* C14 witness: the device of an active connection was detached: its option
\* is gone, another option is still listed, and the read loop still holds its
\* reader on the open handle.
C14_Witness ==
  /\ port # 0 /\ port \notin plugged
  /\ findPortOption(options, port, 1) = 0
  /\ Len(options) >= 1
  /\ hstate[port] = "opened" /\ reader = LiveReader(port)
  /\ btnText = "Disconnect"
  /\ last = NoStep

\* C19: close() is called on a handle at most once for each open: no two
\* invocations have called close() on the same handle.
C19_CloseOnce ==
  \A t, u \in Tasks :
     t # u /\ tasks[t].pc = "close" /\ tasks[u].pc = "close"
       => tasks[t].h # tasks[u].h

\* C20: when there is no current port, the button reads 'Connect' and no call
\* of connectToPort or disconnectFromPort is in progress, no handle is open
\* and no reader lock is held.
C20_NoLeak ==
  (port = 0 /\ btnText = "Connect" /\ \A t \in Tasks : tasks[t] = Idle)
    => \A p \in Ports : hstate[p] = "closed" /\ ~locked[p]

\* sendCmd or setFrequency runs
SendOps == {"sendCmd", "setFrequency"}

\* C11: when there is no current port, or the current port has no writable
\* stream, sendCmd and setFrequency issue no write, return, and leave the
\* current port, the reader, the button and selector, the option list, the
\* handles and the running invocations unchanged.
C11_SendDropped ==
  [][(last'.op \in SendOps /\ (port = 0 \/ hstate[port] # "opened")) =>
       /\ last'.wr = << >>
       /\ last'.end = "returned"
       /\ UNCHANGED <<port, reader, uiVars, listVars, hostVars, tasks>>]_vars

\* C11 witness: setFrequency has run while port.open() was pending
\* ('Connecting...') and has written nothing.
C11_Witness ==
  /\ last.op = "setFrequency"
  /\ port # 0 /\ hstate[port] = "opening" /\ btnText = "Connecting..."
  /\ last.wr = << >>

\* C13: of two calls of maybeAddNewPort in a row with the same handle, the
\* second returns the option the first returned and leaves the option list
\* and portCounter unchanged.
C13_Idempotent ==
  [][(last.op = "maybeAddNewPort" /\ last'.op = "maybeAddNewPort"
      /\ last'.arg = last.arg) =>
       /\ last'.ret = last.ret
       /\ options' = options
       /\ portCounter' = portCounter]_vars

\* C13 witness: maybeAddNewPort was called a second time in a row with a
\* handle that was not listed before the first call.
C13_Witness ==
  /\ last.op = "maybeAddNewPort"
  /\ last.again
  /\ last.ret.label = portCounter - 1
  /\ last.ret.port = last.arg

\* C15: toXK852Cmd(text) is 10, then the encoded bytes of text, then 13; its
\* length is that of the encoded text plus 2; "*F0000150" gives
\* [10,42,70,48,48,48,48,49,53,48,13].
C15_Framing ==
  last.op \in SendOps =>
    LET m == encode(last.cmd)
        b == last.data
    IN /\ Len(b) = Len(m) + 2
       /\ b[1] = 10
       /\ b[Len(b)] = 13
       /\ \A i \in 1..Len(m) : b[i + 1] = m[i]
       /\ b = <<10>> \o m \o <<13>>
       /\ last.cmd = ExampleCmd =>
            b = <<10, 42, 70, 48, 48, 48, 48, 49, 53, 48, 13>>

\* C15 witness: sendCmd has run with a text that has a character of more
\* than one byte.
C15_Witness ==
  /\ last.op = "sendCmd"
  /\ Len(last.cmd) = 2
  /\ Len(last.data) > Len(last.cmd) + 2

\* the number a sequence of decimal digits stands for
RECURSIVE DigitsValue(_)
DigitsValue(ds) ==
  IF ds = << >> THEN 0
  ELSE 10 * DigitsValue(SubSeq(ds, 1, Len(ds) - 1)) + (ds[Len(ds)] - 48)

\* C16: for every frequency value, setFrequency's command is '*F' followed
\* by exactly 7 decimal digits, which are round(value / 10).
C16_SevenDigits ==
  last.op = "setFrequency" =>
    /\ Len(last.cmd) = 9
    /\ last.cmd[1] = 42 /\ last.cmd[2] = 70
    /\ \A i \in 3..9 : last.cmd[i] \in 48..57
    /\ DigitsValue(SubSeq(last.cmd, 3, 9)) = (last.arg + 5) \div 10

\* C17 as stated: the value 15000 gives the command "*F0000150".
C17_Example ==
  (last.op = "setFrequency" /\ last.arg = 15000) => last.cmd = ExampleCmd

\* C17 amended: the value 15000 gives the command "*F0001500"; it is the
\* value 1500 that gives "*F0000150".
C17_Example1500 ==
  /\ (last.op = "setFrequency" /\ last.arg = 15000) =>
       /\ last.cmd = <<42, 70, 48, 48, 48, 49, 53, 48, 48>>
       /\ last.data = <<10, 42, 70, 48, 48, 48, 49, 53, 48, 48, 13>>
  /\ (last.op = "setFrequency" /\ last.arg = 1500) => last.cmd = ExampleCmd

\* C17 witness: setFrequency has run with the value 15000.
C17_Witness == last.op = "setFrequency" /\ last.arg = 15000

\* C18: setReturnMsg("\n T  ") leaves rig.returnMsg as it was, setReturnMsg
\* of any other message stores it, and neither changes rig.frequency or
\* rig.frequencyConfirmed; so returnMsg is the last message that was not
\* "\n T  ".
C18_ReturnMsg ==
  /\ [][last'.op = "setReturnMsg" =>
          /\ rig'.returnMsg = IF last'.arg = "\n T  "
                               THEN rig.returnMsg
                               ELSE last'.arg
          /\ rig'.frequency = rig.frequency
          /\ rig'.frequencyConfirmed = rig.frequencyConfirmed]_vars
  /\ []((last.op = "setReturnMsg" /\ last.arg # "\n T  ")
          => rig.returnMsg = last.arg)

\* C18 witness: setReturnMsg("\n T  ") was called after another message was
\* stored, which is still there.
C18_Witness ==
  /\ last.op = "setReturnMsg"
  /\ last.arg = "\n T  "
  /\ rig.returnMsg = "\n T "
====
